---- MODULE Spec2Model ----
(***************************************************************************)
(* Model of transientBalanceEquation.py: the time-stepping driver of a     *)
(* stirred mixing vessel (volume, concentration, temperature).             *)
(*                                                                         *)
(* Numbers.  The script computes with float64.  Here a number is a record  *)
(* [fin, val]: fin = FALSE stands for a non-finite float (inf or nan, as   *)
(* numpy produces on a division by zero), fin = TRUE carries a fixed-point *)
(* integer val.  The units make the script's formulas read unchanged:      *)
(*     time           1/198 min     (10 min = 1980)                        *)
(*     flow           1/10 L/min    (5.2 L/min = 52)                       *)
(*     volume         1/1980 L      (flow unit * time unit; 1.0 L = 1980)  *)
(*     concentration  1/1000 mol/L  (1.0 mol/L = 1000)                     *)
(*     temperature    1/10 K        (350 K = 3500)                         *)
(* A quotient is rounded down to the unit.                                 *)
(*                                                                         *)
(* The literals of the script (initial state, grid, baselines, step        *)
(* indices and step values) are the configuration: Init draws them from    *)
(* small sets that contain the values written in the script.               *)
(***************************************************************************)
EXTENDS Integers, Sequences, FiniteSets

VARIABLES
    pc,      \* position of the script
    cfg,     \* the literals of lines 46-61 used by this run
    V0, Ca0, T0, y0,          \* lines 40-43
    t, qf, q, Caf, Tf,        \* lines 46-61
    V, Ca, T,                 \* lines 64-66
    i,       \* loop variable of line 69 (-1: the loop has not started)
    y,       \* result of the last odeint call (line 73)
    data,    \* lines 83-84
    file,    \* rows written by savetxt (line 85)
    calls    \* history: one record per odeint call, in call order

vars == <<pc, cfg, V0, Ca0, T0, y0, t, qf, q, Caf, Tf, V, Ca, T, i, y, data, file, calls>>

(***************************** bounds **************************************)
\* Largest grid length of the small configurations.
MaxLen == 5

(********************** literals of the script *****************************)
DocV0 == 1980
DocCa0 == 0
DocT0 == 3500
DocStart == 0
DocStop == 1980
DocNum == 100
DocQfBase == 52
DocQfIdx == 50
DocQfStep == 51
DocQBase == 50
DocCafBase == 1000
DocCafIdx == 30
DocCafStep == 500
DocTfBase == 3000
DocTfIdx == 70
DocTfStep == 3250

(****************************** numbers ************************************)
Fin(n) == [fin |-> TRUE, val |-> n]
NaN == [fin |-> FALSE, val |-> 0]

FAdd(a, b) == IF a.fin /\ b.fin THEN Fin(a.val + b.val) ELSE NaN
FSub(a, b) == IF a.fin /\ b.fin THEN Fin(a.val - b.val) ELSE NaN
FMul(a, b) == IF a.fin /\ b.fin THEN Fin(a.val * b.val) ELSE NaN
\* numpy float division: a zero divisor gives inf or nan (a warning, no exception)
FDiv(a, b) == IF a.fin /\ b.fin /\ b.val # 0 THEN Fin(a.val \div b.val) ELSE NaN

\* arr[k] for a 0-based index k
At(arr, k) == arr[k + 1]

(*************************** array primitives ******************************)
\* np.ones(n) * c
OnesTimes(n, c) == [k \in 1..n |-> FMul(Fin(1), c)]

\* Variant of SliceAssign: the slice start taken as a 1-based position.
SliceAssignOffByOne(arr, start, c) == [k \in 1..Len(arr) |-> IF k >= start THEN c ELSE arr[k]]

\* arr[start:] = c, for start >= 0 (an empty slice when start >= len(arr))
SliceAssign(arr, start, c) == [k \in 1..Len(arr) |-> IF k - 1 >= start THEN c ELSE arr[k]]

\* np.linspace(start, stop, num)
linspace(start, stop, num) ==
    [k \in 1..num |-> IF num = 1 THEN Fin(start)
                      ELSE Fin(start + ((stop - start) * (k - 1)) \div (num - 1))]

\* np.vstack(rows): the rows must have one common length
VStackOk(rows) == \A a \in 1..Len(rows) : Len(rows[a]) = Len(rows[1])

\* ndarray.T of a 2-d array given as a sequence of rows
Transpose(m) == [r \in 1..Len(m[1]) |-> [c \in 1..Len(m) |-> m[c][r]]]

(***************************************************************************)
(* Variants of vessel, each with one slip in a balance:                    *)
(*   vesselNoOutflow   dVdt = qf            (outlet flow left out)         *)
(*   vesselSwapped     dVdt = q - qf        (operands exchanged)           *)
(*   vesselSign        dTdt = (qf*tf + q*t)/v - ...   (sign of outflow)    *)
(***************************************************************************)
vesselNoOutflow(x, tt, q_, qf_, caf, tf) ==
    LET v     == x[1]
        ca    == x[2]
        temp  == x[3]
        rA    == Fin(0)
        dVdt  == qf_
        dCadt == FSub(FSub(FDiv(FSub(FMul(qf_, caf), FMul(q_, ca)), v), rA),
                      FDiv(FMul(ca, dVdt), v))
        dTdt  == FSub(FDiv(FSub(FMul(qf_, tf), FMul(q_, temp)), v),
                      FDiv(FMul(temp, dVdt), v))
    IN  <<dVdt, dCadt, dTdt>>

vesselSwapped(x, tt, q_, qf_, caf, tf) ==
    LET v     == x[1]
        ca    == x[2]
        temp  == x[3]
        rA    == Fin(0)
        dVdt  == FSub(q_, qf_)
        dCadt == FSub(FSub(FDiv(FSub(FMul(qf_, caf), FMul(q_, ca)), v), rA),
                      FDiv(FMul(ca, dVdt), v))
        dTdt  == FSub(FDiv(FSub(FMul(qf_, tf), FMul(q_, temp)), v),
                      FDiv(FMul(temp, dVdt), v))
    IN  <<dVdt, dCadt, dTdt>>

vesselSign(x, tt, q_, qf_, caf, tf) ==
    LET v     == x[1]
        ca    == x[2]
        temp  == x[3]
        rA    == Fin(0)
        dVdt  == FSub(qf_, q_)
        dCadt == FSub(FSub(FDiv(FSub(FMul(qf_, caf), FMul(q_, ca)), v), rA),
                      FDiv(FMul(ca, dVdt), v))
        dTdt  == FSub(FDiv(FAdd(FMul(qf_, tf), FMul(q_, temp)), v),
                      FDiv(FMul(temp, dVdt), v))
    IN  <<dVdt, dCadt, dTdt>>

(************************* derivative function *****************************)
vessel(x, tt, q_, qf_, caf, tf) ==
    LET v     == x[1]
        ca    == x[2]
        temp  == x[3]
        rA    == Fin(0)
        dVdt  == FSub(qf_, q_)
        dCadt == FSub(FSub(FDiv(FSub(FMul(qf_, caf), FMul(q_, ca)), v), rA),
                      FDiv(FMul(ca, dVdt), v))
        dTdt  == FSub(FDiv(FSub(FMul(qf_, tf), FMul(q_, temp)), v),
                      FDiv(FMul(temp, dVdt), v))
    IN  <<dVdt, dCadt, dTdt>>

(***************************************************************************)
(* odeint(vessel, y0, ts, args=inputs) for a two-point ts.  The library    *)
(* integrator is outside the repository; it is modelled as one explicit    *)
(* Euler step of vessel over [ts[0], ts[1]]: row 0 is the initial state,   *)
(* the last row is y0 + (ts[1] - ts[0]) * vessel(y0, ts[0], *inputs).      *)
(* This is exact for the volume (dV/dt does not depend on the state) and   *)
(* for a state whose derivative is zero.  odeint raises no exception when  *)
(* the integration fails: it warns and returns the array, so a non-finite  *)
(* derivative yields a non-finite row.                                     *)
(***************************************************************************)
odeint(init, ts, inputs) ==
    LET d  == vessel(init, ts[1], inputs[1], inputs[2], inputs[3], inputs[4])
        h  == FSub(ts[2], ts[1])
    IN  <<init, [c \in 1..3 |-> FAdd(init[c], FMul(h, d[c]))]>>

(***************************** configuration *******************************)
DocCfg ==
    [num |-> DocNum, stop |-> DocStop,
     qfBase |-> DocQfBase, qfIdx |-> DocQfIdx, qfStep |-> DocQfStep,
     qBase |-> DocQBase,
     cafBase |-> DocCafBase, cafIdx |-> DocCafIdx, cafStep |-> DocCafStep,
     tfBase |-> DocTfBase, tfIdx |-> DocTfIdx, tfStep |-> DocTfStep,
     dq |-> 0, dqf |-> 0, dcaf |-> 0, dtf |-> 0]

\* one minute, the length of the short grids
ShortStop == DocStop \div 10

SmallCfgs ==
    [num : 1..MaxLen, stop : {ShortStop},
     qfBase : {DocQBase, DocQBase + 10}, qfIdx : {1, 2}, qfStep : {DocQBase, DocQfStep},
     qBase : {DocQBase, DocQBase + 10},
     cafBase : {0, DocCafBase}, cafIdx : {1, 2}, cafStep : {DocCafStep},
     tfBase : {DocTfBase, DocT0}, tfIdx : {1, 2}, tfStep : {DocTfStep},
     dq : {0}, dqf : {0}, dcaf : {0}, dtf : {0}]

InitWith(c, v0, ca0, t0) ==
    /\ pc = "grid"
    /\ cfg = c
    /\ V0 = Fin(v0) /\ Ca0 = Fin(ca0) /\ T0 = Fin(t0)
    /\ y0 = <<V0, Ca0, T0>>
    /\ t = <<>> /\ qf = <<>> /\ q = <<>> /\ Caf = <<>> /\ Tf = <<>>
    /\ V = <<>> /\ Ca = <<>> /\ T = <<>>
    /\ i = -1
    /\ y = <<>>
    /\ data = <<>>
    /\ file = <<>>
    /\ calls = <<>>

Init ==
    \/ InitWith(DocCfg, DocV0, DocCa0, DocT0)
    \/ \E c \in SmallCfgs, v0 \in {DocV0, DocV0 \div 2},
          ca0 \in {DocCa0, DocCafBase}, t0 \in {DocT0, DocTfBase} :
          InitWith(c, v0, ca0, t0)

(******************************* the script ********************************)
\* line 46
MakeGrid ==
    /\ pc = "grid"
    /\ t' = linspace(DocStart, cfg.stop, cfg.num)
    /\ pc' = "qf"
    /\ UNCHANGED <<cfg, V0, Ca0, T0, y0, qf, q, Caf, Tf, V, Ca, T, i, y, data, file, calls>>

\* lines 49-50
MakeQf ==
    /\ pc = "qf"
    /\ qf' = SliceAssign(OnesTimes(Len(t) + cfg.dqf, Fin(cfg.qfBase)), cfg.qfIdx, Fin(cfg.qfStep))
    /\ pc' = "q"
    /\ UNCHANGED <<cfg, V0, Ca0, T0, y0, t, q, Caf, Tf, V, Ca, T, i, y, data, file, calls>>

\* line 53
MakeQ ==
    /\ pc = "q"
    /\ q' = OnesTimes(Len(t) + cfg.dq, Fin(cfg.qBase))
    /\ pc' = "caf"
    /\ UNCHANGED <<cfg, V0, Ca0, T0, y0, t, qf, Caf, Tf, V, Ca, T, i, y, data, file, calls>>

\* lines 56-57
MakeCaf ==
    /\ pc = "caf"
    /\ Caf' = SliceAssign(OnesTimes(Len(t) + cfg.dcaf, Fin(cfg.cafBase)), cfg.cafIdx, Fin(cfg.cafStep))
    /\ pc' = "tf"
    /\ UNCHANGED <<cfg, V0, Ca0, T0, y0, t, qf, q, Tf, V, Ca, T, i, y, data, file, calls>>

\* lines 60-61
MakeTf ==
    /\ pc = "tf"
    /\ Tf' = SliceAssign(OnesTimes(Len(t) + cfg.dtf, Fin(cfg.tfBase)), cfg.tfIdx, Fin(cfg.tfStep))
    /\ pc' = "storage"
    /\ UNCHANGED <<cfg, V0, Ca0, T0, y0, t, qf, q, Caf, V, Ca, T, i, y, data, file, calls>>

\* lines 64-66
AllocStorage ==
    /\ pc = "storage"
    /\ V' = OnesTimes(Len(t), V0)
    /\ Ca' = OnesTimes(Len(t), Ca0)
    /\ T' = OnesTimes(Len(t), T0)
    /\ pc' = "for"
    /\ UNCHANGED <<cfg, V0, Ca0, T0, y0, t, qf, q, Caf, Tf, i, y, data, file, calls>>

\* Variant of ForNext: the loop runs over range(len(t)-2).
ForNextShort ==
    /\ pc = "for"
    /\ IF i + 1 < Len(t) - 2
       THEN i' = i + 1 /\ pc' = "simulate"
       ELSE i' = i /\ pc' = "vstack"
    /\ UNCHANGED <<cfg, V0, Ca0, T0, y0, t, qf, q, Caf, Tf, V, Ca, T, y, data, file, calls>>

\* line 69: the next value of range(len(t)-1), or the end of the loop
ForNext ==
    /\ pc = "for"
    /\ IF i + 1 < Len(t) - 1
       THEN i' = i + 1 /\ pc' = "simulate"
       ELSE i' = i /\ pc' = "vstack"
    /\ UNCHANGED <<cfg, V0, Ca0, T0, y0, t, qf, q, Caf, Tf, V, Ca, T, y, data, file, calls>>

\* every subscript of lines 71-72 is in range
SubscriptsOk ==
    /\ i < Len(q) /\ i < Len(qf) /\ i < Len(Caf) /\ i < Len(Tf)
    /\ i + 1 < Len(t)

\* lines 71-73
Simulate ==
    /\ pc = "simulate"
    /\ SubscriptsOk
    /\ LET inputs == <<At(q, i), At(qf, i), At(Caf, i), At(Tf, i)>>
           ts     == <<At(t, i), At(t, i + 1)>>
           res    == odeint(y0, ts, inputs)
       IN  /\ y' = res
           /\ calls' = Append(calls,
                  [i |-> i, y0 |-> y0, ts |-> ts, inputs |-> inputs,
                   dydt |-> vessel(y0, ts[1], inputs[1], inputs[2], inputs[3], inputs[4]),
                   y |-> res])
    /\ pc' = "store"
    /\ UNCHANGED <<cfg, V0, Ca0, T0, y0, t, qf, q, Caf, Tf, V, Ca, T, i, data, file>>

\* Variant of StoreIndex: the results of step k stored at index k.
StoreIndexSame(k) == k

\* the index the results of step k are stored at (lines 75-77)
StoreIndex(k) == k + 1

\* Variant of Store: line 80 left out, y0 keeps the initial condition.
StoreKeepsY0 ==
    /\ pc = "store"
    /\ V' = [V EXCEPT ![StoreIndex(i) + 1] = y[Len(y)][1]]
    /\ Ca' = [Ca EXCEPT ![StoreIndex(i) + 1] = y[Len(y)][2]]
    /\ T' = [T EXCEPT ![StoreIndex(i) + 1] = y[Len(y)][3]]
    /\ pc' = "for"
    /\ UNCHANGED <<cfg, V0, Ca0, T0, y0, t, qf, q, Caf, Tf, i, y, data, file, calls>>

\* lines 75-80
Store ==
    /\ pc = "store"
    /\ V' = [V EXCEPT ![StoreIndex(i) + 1] = y[Len(y)][1]]
    /\ Ca' = [Ca EXCEPT ![StoreIndex(i) + 1] = y[Len(y)][2]]
    /\ T' = [T EXCEPT ![StoreIndex(i) + 1] = y[Len(y)][3]]
    /\ y0' = y[Len(y)]
    /\ pc' = "for"
    /\ UNCHANGED <<cfg, V0, Ca0, T0, t, qf, q, Caf, Tf, i, y, data, file, calls>>

\* Variant of StackOrder: the two flow rows exchanged.
StackOrderSwapped == <<t, q, qf, Tf, Caf, V, Ca, T>>

\* the rows stacked at line 83, in stacking order
StackOrder == <<t, qf, q, Tf, Caf, V, Ca, T>>

\* lines 83-84
BuildTable ==
    /\ pc = "vstack"
    /\ VStackOk(StackOrder)
    /\ data' = Transpose(StackOrder)
    /\ pc' = "savetxt"
    /\ UNCHANGED <<cfg, V0, Ca0, T0, y0, t, qf, q, Caf, Tf, V, Ca, T, i, y, file, calls>>

\* line 85
SaveTxt ==
    /\ pc = "savetxt"
    /\ file' = data
    /\ pc' = "done"
    /\ UNCHANGED <<cfg, V0, Ca0, T0, y0, t, qf, q, Caf, Tf, V, Ca, T, i, y, data, calls>>

Next ==
    \/ MakeGrid
    \/ MakeQf
    \/ MakeQ
    \/ MakeCaf
    \/ MakeTf
    \/ AllocStorage
    \/ ForNext
    \/ Simulate
    \/ Store
    \/ BuildTable
    \/ SaveTxt

Spec == Init /\ [][Next]_vars

(***************************************************************************)
(* Schedules whose lengths differ from the grid's.  The script derives     *)
(* every length from len(t); here the length passed to np.ones is          *)
(* len(t) + d with d drawn from -2..1, which is what a caller-supplied     *)
(* sequence of another length amounts to.  A subscript out of range raises *)
(* IndexError at line 71, stacking rows of different lengths raises        *)
(* ValueError at line 83; either ends the script.                          *)
(***************************************************************************)
LenCfgs ==
    [num : 2..MaxLen, stop : {ShortStop},
     qfBase : {DocQfBase}, qfIdx : {1}, qfStep : {DocQfStep},
     qBase : {DocQBase},
     cafBase : {DocCafBase}, cafIdx : {1}, cafStep : {DocCafStep},
     tfBase : {DocTfBase}, tfIdx : {1}, tfStep : {DocTfStep},
     dq : -2..1, dqf : -2..1, dcaf : -2..1, dtf : -2..1]

InitLen == \E c \in LenCfgs : InitWith(c, DocV0, DocCa0, DocT0)

\* line 71: q[i], qf[i], Caf[i] or Tf[i] out of range
RaiseIndexError ==
    /\ pc = "simulate"
    /\ ~SubscriptsOk
    /\ pc' = "error"
    /\ UNCHANGED <<cfg, V0, Ca0, T0, y0, t, qf, q, Caf, Tf, V, Ca, T, i, y, data, file, calls>>

\* line 83: np.vstack of rows of different lengths
RaiseValueError ==
    /\ pc = "vstack"
    /\ ~VStackOk(StackOrder)
    /\ pc' = "error"
    /\ UNCHANGED <<cfg, V0, Ca0, T0, y0, t, qf, q, Caf, Tf, V, Ca, T, i, y, data, file, calls>>

NextLen ==
    \/ Next
    \/ RaiseIndexError
    \/ RaiseValueError

SpecLen == InitLen /\ [][NextLen]_vars

(******************************* properties ********************************)
Last(s) == s[Len(s)]

\* trajectory[k - 1]: the k-th entries of the three result arrays
Traj(k) == <<V[k], Ca[k], T[k]>>

InitialCondition == <<V0, Ca0, T0>>

\* lines 46-61 have run
ScheduleBuilt == pc \notin {"grid", "qf", "q", "caf", "tf"}

\* lines 64-66 have run
Allocated == ScheduleBuilt /\ pc # "storage"

\* the loop of line 69 has ended
LoopFinished == pc \in {"vstack", "savetxt", "done"}

\* number of loop iterations whose results are stored
Stored == IF pc = "store" THEN Len(calls) - 1 ELSE Len(calls)

Positive(x) == x.fin /\ x.val > 0

Finite3(s) == s[1].fin /\ s[2].fin /\ s[3].fin

\* 0-based indices k with s[k] # s[k+1]
Changes(s) == {k \in 0..(Len(s) - 2) : At(s, k) # At(s, k + 1)}

Constant(s, a) == \A k \in 1..Len(s) : s[k] = Fin(a)

\* a before index idx, b from idx on, one change
StepAt(s, idx, a, b) ==
    /\ a # b
    /\ Changes(s) = {idx - 1}
    /\ \A k \in 0..(idx - 1) : At(s, k) = Fin(a)
    /\ \A k \in idx..(Len(s) - 1) : At(s, k) = Fin(b)

(***************************************************************************)
(* C1: the k-th integrator call (k = 0, 1, ...) is made for step index k   *)
(* with initial state trajectory[k], interval [t[k], t[k+1]] and inputs    *)
(* (q[k], qf[k], Caf[k], Tf[k]); trajectory[k+1] is the last row of its    *)
(* result; an entry, once its step has stored it, never changes.           *)
(***************************************************************************)
C1_CallsMatch ==
    \A k \in 1..Len(calls) :
        LET c == calls[k] IN
        /\ c.i = k - 1
        /\ c.y0 = Traj(k)
        /\ c.ts = <<t[k], t[k + 1]>>
        /\ c.inputs = <<q[k], qf[k], Caf[k], Tf[k]>>
        /\ k <= Stored => Traj(k + 1) = Last(c.y)

C1_Frozen == \A k \in 1..Len(V) : k <= Stored + 1 => Traj(k)' = Traj(k)

C1_StepByStep == []C1_CallsMatch /\ [][C1_Frozen]_vars

C1_Witness ==
    /\ pc = "done"
    /\ Len(calls) >= 2
    /\ Traj(2) # Traj(1)
    /\ Traj(3) # Traj(2)

(***************************************************************************)
(* C2: when the loop has ended, V, Ca and T each have len(t) entries and   *)
(* odeint has been called len(t) - 1 times, for every grid length >= 1.    *)
(***************************************************************************)
C2_Lengths ==
    LoopFinished =>
        /\ Len(t) >= 1
        /\ Len(V) = Len(t) /\ Len(Ca) = Len(t) /\ Len(T) = Len(t)
        /\ Len(calls) = Len(t) - 1

C2_Witness == pc = "done" /\ Len(t) = DocNum /\ Len(calls) = DocNum - 1

(***************************************************************************)
(* C3: from the allocation of the result arrays to the end of the script,  *)
(* trajectory[0] is the initial condition (V0, Ca0, T0).                   *)
(***************************************************************************)
C3_InitialKept == Allocated => Traj(1) = InitialCondition

C3_Witness == pc = "done" /\ Len(calls) >= 2 /\ Traj(2) # Traj(1)

(***************************************************************************)
(* C4: a call that returns a non-finite state is the last call, no call    *)
(* starts from a non-finite state, and no table is built or written after  *)
(* it.                                                                     *)
(***************************************************************************)
C4_AbortOnFailure ==
    \A k \in 1..Len(calls) :
        /\ Finite3(calls[k].y0)
        /\ ~Finite3(Last(calls[k].y)) =>
              /\ k = Len(calls)
              /\ data = <<>>
              /\ file = <<>>

(***************************************************************************)
(* C5: when a boundary-input sequence and the grid differ in length, no    *)
(* integrator call is made and no result is stored.                        *)
(***************************************************************************)
LengthMismatch ==
    /\ ScheduleBuilt
    /\ \/ Len(q) # Len(t)
       \/ Len(qf) # Len(t)
       \/ Len(Caf) # Len(t)
       \/ Len(Tf) # Len(t)

C5_RejectedFirst ==
    LengthMismatch =>
        /\ calls = <<>>
        /\ \A k \in 1..Len(V) : Traj(k) = InitialCondition

(***************************************************************************)
(* C6: when qf[k] = q[k] at every index, every evaluation of vessel gives  *)
(* dV/dt = 0 and every entry of V equals V0.                               *)
(***************************************************************************)
FlowsEqual == ScheduleBuilt /\ \A k \in 1..Len(q) : qf[k] = q[k]

C6_VolumeConstant ==
    FlowsEqual =>
        /\ \A k \in 1..Len(calls) : calls[k].dydt[1] = Fin(0)
        /\ \A k \in 1..Len(V) : V[k] = V0

C6_Witness ==
    /\ FlowsEqual
    /\ pc = "done"
    /\ Len(calls) >= 2
    /\ Ca[2] # Ca[1]
    /\ T[3] # T[2]

(***************************************************************************)
(* C7: vessel at a state with V > 0 and inputs qf = q, caf = Ca, tf = T    *)
(* returns (0, 0, 0); a run started at such a state with constant inputs   *)
(* keeps every trajectory entry equal to the initial state; Scenario A     *)
(* (grid [0, 1], state (1.0, 0.0, 350.0), qf = q = 5.0, caf = 0.0,         *)
(* tf = 350.0) gives trajectory[1] = (1.0, 0.0, 350.0).                    *)
(***************************************************************************)
Zero3 == <<Fin(0), Fin(0), Fin(0)>>

SteadyCall(c) ==
    /\ Positive(c.y0[1])
    /\ c.inputs[2] = c.inputs[1]
    /\ c.inputs[3] = c.y0[2]
    /\ c.inputs[4] = c.y0[3]

SteadyRun ==
    /\ Allocated
    /\ Positive(V0)
    /\ \A k \in 1..Len(t) : qf[k] = q[k] /\ Caf[k] = Ca0 /\ Tf[k] = T0

ScenarioA ==
    /\ Allocated
    /\ t = <<Fin(DocStart), Fin(ShortStop)>>
    /\ InitialCondition = <<Fin(DocV0), Fin(DocCa0), Fin(DocT0)>>
    /\ q = <<Fin(DocQBase), Fin(DocQBase)>>
    /\ qf = q
    /\ Caf = <<Fin(DocCa0), Fin(DocCa0)>>
    /\ Tf = <<Fin(DocT0), Fin(DocT0)>>

C7_SteadyState ==
    /\ \A k \in 1..Len(calls) : SteadyCall(calls[k]) => calls[k].dydt = Zero3
    /\ SteadyRun => \A k \in 1..Len(V) : Traj(k) = InitialCondition
    /\ ScenarioA /\ pc = "done" => Traj(2) = <<Fin(DocV0), Fin(DocCa0), Fin(DocT0)>>

C7_Witness ==
    /\ ScenarioA
    /\ pc = "done"
    /\ Len(calls) = 1
    /\ SteadyCall(calls[1])

(***************************************************************************)
(* C8: the table exists only after the last step; it has len(t) rows of 8  *)
(* columns, row k = (t, qf, q, Tf, Caf, V, Ca, T) at index k; savetxt      *)
(* writes these rows; from the start of the loop on, the grid and the      *)
(* schedule do not change; in the script's configuration the table has    *)
(* 100 rows and its column 2 is 5.0 in each.                               *)
(***************************************************************************)
Row(k) == <<t[k], qf[k], q[k], Tf[k], Caf[k], V[k], Ca[k], T[k]>>

C8_Table ==
    /\ data # <<>> =>
          /\ pc \in {"savetxt", "done"}
          /\ Len(calls) = Len(t) - 1
          /\ Len(data) = Len(t)
          /\ \A k \in 1..Len(data) : Len(data[k]) = 8 /\ data[k] = Row(k)
    /\ pc = "done" => file = data /\ data # <<>>
    /\ cfg = DocCfg /\ pc = "done" =>
          /\ Len(file) = DocNum
          /\ \A k \in 1..Len(file) : At(file[k], 2) = Fin(DocQBase)

C8_ScheduleKept == Allocated => UNCHANGED <<t, qf, q, Caf, Tf>>

C8_Persisted == []C8_Table /\ [][C8_ScheduleKept]_vars

C8_Witness == pc = "done" /\ cfg = DocCfg /\ Len(file) = DocNum

(***************************************************************************)
(* C9 as stated: in the script's configuration each of q, qf, Caf and Tf   *)
(* has exactly one index k with signal[k] # signal[k+1]; qf goes from 5.2  *)
(* to 5.1 at index 50, Caf from 1.0 to 0.5 at 30, Tf from 300 to 325 at 70.*)
(***************************************************************************)
C9_OneStepEach ==
    cfg = DocCfg /\ ScheduleBuilt =>
        /\ Cardinality(Changes(q)) = 1
        /\ StepAt(qf, DocQfIdx, DocQfBase, DocQfStep)
        /\ StepAt(Caf, DocCafIdx, DocCafBase, DocCafStep)
        /\ StepAt(Tf, DocTfIdx, DocTfBase, DocTfStep)

(***************************************************************************)
(* C9 amended: qf, Caf and Tf each have exactly one step (5.2 to 5.1 at    *)
(* index 50, 1.0 to 0.5 at 30, 300 to 325 at 70); the outlet flow q is 5.0 *)
(* at every index and has no step.                                         *)
(***************************************************************************)
C9_ThreeSteps ==
    cfg = DocCfg /\ ScheduleBuilt =>
        /\ Changes(q) = {} /\ Constant(q, DocQBase)
        /\ StepAt(qf, DocQfIdx, DocQfBase, DocQfStep)
        /\ StepAt(Caf, DocCafIdx, DocCafBase, DocCafStep)
        /\ StepAt(Tf, DocTfIdx, DocTfBase, DocTfStep)

C9_Witness == cfg = DocCfg /\ pc = "storage" /\ Len(Tf) = DocNum

(***************************************************************************)
(* C10: in the script's configuration the volume of every state given to   *)
(* the integrator and of every trajectory entry is positive, and the       *)
(* stored volumes increase strictly; the step of lines 71-73 is taken      *)
(* whatever the volume is.                                                 *)
(***************************************************************************)
C10_DocVolume ==
    /\ cfg = DocCfg =>
          /\ \A k \in 1..Len(calls) : Positive(calls[k].y0[1])
          /\ \A k \in 1..Len(V) : Positive(V[k])
          /\ \A k \in 1..Stored : V[k].val < V[k + 1].val
    /\ pc = "simulate" /\ ~Positive(y0[1]) => ENABLED Simulate

C10_Witness == cfg = DocCfg /\ pc = "done" /\ V[DocNum].val > V[DocQfIdx].val

\* a run of another configuration with a volume that is zero or negative
NonPositiveVolume == pc = "simulate" /\ ~Positive(y0[1])

====
